---- MODULE Spec2Model ----
(***************************************************************************)
(* Machine generators of maybenot-defenses.                                *)
(*                                                                         *)
(*   maybenot_front.rs      generate_machine          (FRONT)              *)
(*   maybenot_regulator.rs  generate_client_machine   (RegulaTor, client)  *)
(*                          generate_relay_machine    (RegulaTor, relay)   *)
(*                                                                         *)
(* One behaviour of the model is one call of one generator: Init draws the *)
(* generator and its command-line parameters, every action is one step of  *)
(* the generator's code, and `states` is the Vec<State> being filled.      *)
(*                                                                         *)
(* f64 values are modelled in fixed point: an integer x stands for the     *)
(* real x / FP.  The finite range is |x| < F64_INFINITY; results outside   *)
(* it saturate to +-F64_INFINITY and F64_NAN is the IEEE not-a-number, so  *)
(* the overflow -> inf -> NaN path of the surge partitioner is kept.       *)
(***************************************************************************)
EXTENDS Integers, Sequences, FiniteSets, TLC

(***************************************************************************)
(* f64 arithmetic                                                          *)
(***************************************************************************)

\* Number of fraction bits and the fixed-point unit: 1.0 is FP.
FracBits == 24
FP == 2 ^ FracBits
HalfFP == FP \div 2

\* f64::INFINITY and NaN.  Every finite value lies strictly between
\* -F64_INFINITY and F64_INFINITY.
F64_INFINITY == 2 ^ 30
F64_NAN == F64_INFINITY + 1

\* Op applied to the values of its arguments: each argument is evaluated
\* once, before Op is applied.
Eval1(Op(_), x) == CHOOSE r \in {Op(v) : v \in {x}} : TRUE
Eval2(Op(_, _), x, y) == CHOOSE r \in {Op(p[1], p[2]) : p \in {<< x, y >>}} : TRUE

IsNaN(x) == x = F64_NAN
IsFinite(x) == x > -F64_INFINITY /\ x < F64_INFINITY

\* Overflow of a finite result rounds to an infinity.
Saturate(x) ==
    IF x >= F64_INFINITY THEN F64_INFINITY
    ELSE IF x <= -F64_INFINITY THEN -F64_INFINITY
    ELSE x

Sign(x) == IF x < 0 THEN -1 ELSE IF x > 0 THEN 1 ELSE 0
Magnitude(x) == IF x < 0 THEN -x ELSE x

\* Product of two finite non-negative values, rounded to the nearest unit.
\* The operands are split into 12-bit limbs so that no intermediate result
\* leaves the range of 32-bit integers.
MulLimbs(a, b) ==
    LET a1 == a \div 4096
        a0 == a % 4096
        b1 == b \div 4096
        b0 == b % 4096
    IN  IF b1 > 0 /\ a1 > F64_INFINITY \div b1
        THEN F64_INFINITY
        ELSE LET cross == a1 * b0 + a0 * b1
                 low == a0 * b0
             IN  Saturate(a1 * b1 + ((cross + ((low + HalfFP) \div 4096)) \div 4096))

MulMagnitude(a, b) == Eval2(MulLimbs, a, b)

\* a * b
FMulOf(a, b) ==
    IF IsNaN(a) \/ IsNaN(b) THEN F64_NAN
    ELSE IF ~IsFinite(a) \/ ~IsFinite(b)
    THEN IF a = 0 \/ b = 0 THEN F64_NAN
         ELSE IF Sign(a) * Sign(b) > 0 THEN F64_INFINITY ELSE -F64_INFINITY
    ELSE Sign(a) * Sign(b) * MulMagnitude(Magnitude(a), Magnitude(b))

FMul(a, b) == Eval2(FMulOf, a, b)

\* a + b
FAddOf(a, b) ==
    IF IsNaN(a) \/ IsNaN(b) THEN F64_NAN
    ELSE IF ~IsFinite(a)
    THEN IF ~IsFinite(b) /\ a # b THEN F64_NAN ELSE a
    ELSE IF ~IsFinite(b) THEN b
    ELSE Saturate(a + b)

FAdd(a, b) == Eval2(FAddOf, a, b)

FNegOf(a) == IF IsNaN(a) THEN F64_NAN ELSE -a
FNeg(a) == Eval1(FNegOf, a)

\* a - b
FSub(a, b) == FAdd(a, FNeg(b))

\* f64::abs
FAbsOf(a) == IF IsNaN(a) THEN F64_NAN ELSE Magnitude(a)
FAbs(a) == Eval1(FAbsOf, a)

\* a > b and a < b: every comparison with NaN is false.
FGtOf(a, b) == ~IsNaN(a) /\ ~IsNaN(b) /\ a > b
FGt(a, b) == Eval2(FGtOf, a, b)
FLtOf(a, b) == ~IsNaN(a) /\ ~IsNaN(b) /\ a < b
FLt(a, b) == Eval2(FLtOf, a, b)

\* a / 2.0
FHalfOf(a) ==
    IF IsNaN(a) \/ ~IsFinite(a) THEN a
    ELSE Sign(a) * (Magnitude(a) \div 2)
FHalf(a) == Eval1(FHalfOf, a)

\* a * 2.0
FDouble(a) == FMul(a, 2 * FP)

\* floor(n * FP / b) for n >= 0 and 0 < b < F64_INFINITY, by long division.
RECURSIVE DivBitsLoop(_, _, _, _)
DivBitsLoop(q, r, b, k) ==
    IF k = 0 THEN Saturate(q)
    ELSE IF 2 * q >= F64_INFINITY THEN F64_INFINITY
    ELSE CHOOSE res \in
             {DivBitsLoop(p[1], p[2], b, k - 1) :
                 p \in {IF 2 * r >= b THEN << 2 * q + 1, 2 * r - b >>
                                      ELSE << 2 * q, 2 * r >>}} : TRUE

DivBitsOf(n, b) == DivBitsLoop(n \div b, n % b, b, FracBits)
DivBits(n, b) == Eval2(DivBitsOf, n, b)

\* a / b (the sign of a zero is not kept: x / 0.0 is +-inf by the sign of x)
FDivOf(a, b) ==
    IF IsNaN(a) \/ IsNaN(b) THEN F64_NAN
    ELSE IF ~IsFinite(a)
    THEN IF ~IsFinite(b) THEN F64_NAN ELSE IF b >= 0 THEN a ELSE -a
    ELSE IF ~IsFinite(b) THEN 0
    ELSE IF b = 0
    THEN IF a = 0 THEN F64_NAN ELSE Sign(a) * F64_INFINITY
    ELSE Sign(a) * Sign(b) * DivBits(Magnitude(a), Magnitude(b))
FDiv(a, b) == Eval2(FDivOf, a, b)

\* 2^(2^-i) for i = 1 .. FracBits, in units of 1 / FP.
Exp2Table ==
    << 23726566, 19951585, 18295684, 17520007, 17144589, 16959908,
       16868315, 16822704, 16799944, 16788576, 16782895, 16780055,
       16778636, 16777926, 16777571, 16777393, 16777305, 16777260,
       16777238, 16777227, 16777222, 16777219, 16777217, 16777217 >>

\* 2^(f / FP) for 0 <= f < FP: the product of the table entries of the
\* bits set in f.
RECURSIVE Exp2Frac(_, _, _)
Exp2Frac(f, i, m) ==
    IF i > FracBits THEN m
    ELSE CHOOSE res \in
             {Exp2Frac(f, i + 1, v) :
                 v \in {IF (f \div (2 ^ (FracBits - i))) % 2 = 1
                        THEN MulMagnitude(m, Exp2Table[i])
                        ELSE m}} : TRUE

\* 2^x
Exp2Of(x) ==
    IF IsNaN(x) THEN F64_NAN
    ELSE IF x = F64_INFINITY THEN F64_INFINITY
    ELSE IF x = -F64_INFINITY THEN 0
    ELSE LET n == x \div FP
             m == Exp2Frac(x - n * FP, 1, FP)
         IN  IF n >= 6 THEN F64_INFINITY
             ELSE IF n >= 0 THEN Saturate(m * (2 ^ n))
             ELSE IF -n > FracBits + 1 THEN 0
             ELSE m \div (2 ^ (-n))
Exp2(x) == Eval1(Exp2Of, x)

\* std::f64::consts::E and std::f64::consts::PI
E == 45605201
PI == 52707179

\* The decay rates the model draws, 0.70710678, 0.5 and 0.25, with their
\* base-2 logarithms -0.5, -1 and -2; the base-2 logarithm of E is
\* 1.44269504.
Decays == {11863283, HalfFP, FP \div 4}
Log2(d) ==
    IF d = E THEN 24204406
    ELSE IF d = 11863283 THEN -HalfFP
    ELSE IF d = HalfFP THEN -FP
    ELSE -2 * FP

\* f64::powf for a base among Decays or E: d^t = 2^(t * log2 d).
Powf(d, t) == Exp2(FMul(Log2(d), t))

\* `x as f32`: round to 24 significant bits, ties to even.
RECURSIVE BitLength(_)
BitLength(n) ==
    IF n = 0 THEN 0
    ELSE 1 + (CHOOSE res \in {BitLength(h) : h \in {n \div 2}} : TRUE)

RoundToUlp(n, ulp) ==
    LET q == n \div ulp
        r == n % ulp
    IN  IF 2 * r > ulp \/ (2 * r = ulp /\ q % 2 = 1)
        THEN Saturate((q + 1) * ulp)
        ELSE q * ulp

RoundF32Magnitude(n, bits) ==
    IF bits <= 24 THEN n ELSE RoundToUlp(n, 2 ^ (bits - 24))

AsF32Of(x) ==
    IF IsNaN(x) \/ ~IsFinite(x) THEN x
    ELSE Sign(x) * Eval2(RoundF32Magnitude, Magnitude(x), BitLength(Magnitude(x)))
AsF32(x) == Eval1(AsF32Of, x)

\* `x as usize`: truncation towards zero; NaN and negative values give 0.
AsUsizeOf(x) ==
    IF IsNaN(x) \/ x <= 0 THEN 0
    ELSE x \div FP
AsUsize(x) == Eval1(AsUsizeOf, x)

\* `n as f64` for an integer n
AsF64(n) == Saturate(n * FP)

\* f64::fract: x - trunc(x)
FractOf(x) ==
    IF IsNaN(x) \/ ~IsFinite(x) THEN F64_NAN
    ELSE Sign(x) * (Magnitude(x) % FP)
Fract(x) == Eval1(FractOf, x)

\* The fraction bits of the base-2 logarithm of y, FP <= y < 2 * FP, from
\* bit k on: y is squared, and a square of at least 2 sets the bit.
RECURSIVE Log2Frac(_, _, _)
Log2Frac(y, k, acc) ==
    IF k > FracBits THEN acc
    ELSE LET sq == MulMagnitude(y, y)
         IN  CHOOSE res \in
                 {Log2Frac(p[1], k + 1, p[2]) :
                     p \in {IF sq >= 2 * FP
                            THEN << sq \div 2, acc + 2 ^ (FracBits - k) >>
                            ELSE << sq, acc >>}} : TRUE

\* The base-2 logarithm of a finite x > 0
Log2Of(x) ==
    LET n == BitLength(x) - 1 - FracBits
        y == IF n >= 0 THEN x \div (2 ^ n) ELSE x * (2 ^ (-n))
    IN  n * FP + Log2Frac(y, 1, 0)

\* x.log(E): the natural logarithm, log2(x) * ln 2 with ln 2 = 0.69314718
LogEOf(x) ==
    IF IsNaN(x) \/ x < 0 THEN F64_NAN
    ELSE IF x = 0 THEN -F64_INFINITY
    ELSE IF x = F64_INFINITY THEN F64_INFINITY
    ELSE FMul(Log2Of(x), 11629080)
LogE(x) == Eval1(LogEOf, x)

\* The largest s with s * s <= x, found bit by bit from the top
RECURSIVE SqrtBits(_, _, _)
SqrtBits(x, s, bit) ==
    IF bit < 0 THEN s
    ELSE CHOOSE res \in
             {SqrtBits(x, c, bit - 1) :
                 c \in {IF MulMagnitude(s + 2 ^ bit, s + 2 ^ bit) <= x
                        THEN s + 2 ^ bit
                        ELSE s}} : TRUE

\* f64::sqrt
SqrtOf(x) ==
    IF IsNaN(x) \/ x < 0 THEN F64_NAN
    ELSE IF x = F64_INFINITY THEN F64_INFINITY
    ELSE SqrtBits(x, 0, 27)
Sqrt(x) == Eval1(SqrtOf, x)

\* f64::powi(2)
Powi2(x) == FMul(x, x)

(***************************************************************************)
(* maybenot types: events, transitions, distributions, actions, states     *)
(***************************************************************************)

\* maybenot::constants::STATE_END, outside every state index.
STATE_END == 2147483646

\* maybenot::event::Event
Event ==
    {"NormalRecv", "PaddingRecv", "NormalSent", "PaddingSent",
     "BlockingBegin", "BlockingEnd", "LimitReached", "UpdateMTU"}

\* maybenot::state::Trans(target, probability)
Trans(target, prob) == [target |-> target, prob |-> prob]

\* enum_map! { ..., _ => vec![] }: the events of `given` carry its
\* transitions, every other event carries none.
EnumMap(given) ==
    [e \in Event |-> IF e \in DOMAIN given THEN given[e] ELSE << >>]

\* Dist::new(DistType::Uniform { low, high }, start, max)
UniformDist(low, high, start, max) ==
    [type |-> "Uniform", low |-> low, high |-> high, start |-> start, max |-> max]

\* Dist::new(DistType::Normal { mean, stdev }, start, max)
NormalDist(mean, stdev, start, max) ==
    [type |-> "Normal", mean |-> mean, stdev |-> stdev, start |-> start, max |-> max]

\* Option::None for a limit or an action, and the curr_index of a state
\* whose constructor takes none.
None == [kind |-> "None"]
NoIndex == -1

\* State::new(transitions) with its action.  Two fields record arguments of
\* the constructor that built the state: curr_index (NoIndex when the
\* constructor takes none) and, for a relay SEND state, rate (0 otherwise).
NewState(curr_index, given, action) ==
    [curr_index |-> curr_index, rate |-> 0, trans |-> EnumMap(given), action |-> action]

SendPadding(bypass, replace, timeout, limit) ==
    [kind |-> "SendPadding", bypass |-> bypass, replace |-> replace,
     timeout |-> timeout, limit |-> limit]

BlockOutgoing(bypass, replace, timeout, duration, limit) ==
    [kind |-> "BlockOutgoing", bypass |-> bypass, replace |-> replace,
     timeout |-> timeout, duration |-> duration, limit |-> limit]

(***************************************************************************)
(* maybenot_regulator.rs: client-side states                               *)
(***************************************************************************)

\* A variant of the state count that rounds upload_ratio up instead of
\* truncating it.
ClientNumStatesCeil(ratio) ==
    (IF IsNaN(ratio) \/ ratio <= 0 THEN 0 ELSE (ratio + FP - 1) \div FP) + 1

\* let num_states = (upload_ratio as usize) + 1;
ClientNumStates(ratio) == AsUsize(ratio) + 1

\* A variant of the last link's probability that is the fraction itself.
ProbLastTransFract(ratio) == AsF32(Fract(ratio))

\* let prob_last_trans = 1.0 - upload_ratio.fract() as f32;
\* the cast applies to the fraction, and the difference is an f32.
ProbLastTrans(ratio) == AsF32(FSub(FP, AsF32(Fract(ratio))))

\* A variant of the client SEND state that does not return to index 0.
generate_client_send_state_stay ==
    NewState(NoIndex,
             [PaddingSent |-> << Trans(1, FP) >>],
             SendPadding(TRUE, TRUE, UniformDist(0, 0, 0, 0), None))

generate_client_send_state ==
    NewState(NoIndex,
             [PaddingSent |-> << Trans(0, FP) >>],
             SendPadding(TRUE, TRUE, UniformDist(0, 0, 0, 0), None))

generate_client_count_state(curr_index, next_index, prob_trans) ==
    NewState(curr_index,
             IF FLt(prob_trans, FP)
             THEN [PaddingRecv |-> << Trans(next_index, prob_trans),
                                      Trans(curr_index, FSub(FP, prob_trans)) >>,
                   NormalRecv |-> << Trans(next_index, prob_trans),
                                     Trans(curr_index, FSub(FP, prob_trans)) >>,
                   LimitReached |-> << Trans(next_index, FP) >>]
             ELSE [PaddingRecv |-> << Trans(next_index, prob_trans) >>,
                   NormalRecv |-> << Trans(next_index, prob_trans) >>],
             BlockOutgoing(TRUE, TRUE, UniformDist(0, 0, 0, 0),
                           UniformDist(F64_INFINITY, F64_INFINITY, 0, 0),
                           UniformDist(2 * FP, 2 * FP, 0, 0)))

(***************************************************************************)
(* maybenot_regulator.rs: relay-side states                                *)
(***************************************************************************)

\* Timeouts are kept in whole microseconds (1000000.0 / rate exceeds the
\* fixed-point range): timeout_us is an integer number of microseconds.
MicrosPerRateOf(rate) ==
    IF IsNaN(rate) THEN F64_NAN
    ELSE IF rate = 0 THEN F64_INFINITY
    ELSE IF ~IsFinite(rate) THEN 0
    ELSE Sign(rate) * DivBits(1000000, Magnitude(rate))
MicrosPerRate(rate) == Eval1(MicrosPerRateOf, rate)

BootTimeout == 100000

\* 2.0 / (threshold * rate) as f32: the cast applies to the product, and
\* the quotient is an f32 too.
SurgeProb(threshold, rate) ==
    AsF32(FDiv(2 * FP, AsF32(FMul(threshold, rate))))

\* A variant of the relay SEND state in which every SEND state jumps back
\* to the last BOOTSTRAP state (index 10).
generate_relay_send_state_to_boot(curr_index, next_index, padding_count, timeout, threshold, rate) ==
    [NewState(curr_index,
              IF curr_index > 10
              THEN [PaddingSent |-> << Trans(curr_index, FP) >>,
                    LimitReached |-> << Trans(next_index, FP) >>,
                    NormalSent |-> << Trans(10, SurgeProb(threshold, rate)) >>]
              ELSE [PaddingSent |-> << Trans(curr_index, FP) >>,
                    LimitReached |-> << Trans(next_index, FP) >>],
              SendPadding(TRUE, TRUE, UniformDist(timeout, timeout, 0, 0),
                          UniformDist(padding_count, padding_count, 0, 0)))
        EXCEPT !.rate = rate]

\* A variant of the relay SEND state whose LimitReached transition always
\* leads to the state after it, whatever next_index is.
generate_relay_send_state_never_ends(curr_index, next_index, padding_count, timeout, threshold, rate) ==
    [NewState(curr_index,
              IF curr_index > 11
              THEN [PaddingSent |-> << Trans(curr_index, FP) >>,
                    LimitReached |-> << Trans(curr_index + 1, FP) >>,
                    NormalSent |-> << Trans(11, SurgeProb(threshold, rate)) >>]
              ELSE [PaddingSent |-> << Trans(curr_index, FP) >>,
                    LimitReached |-> << Trans(curr_index + 1, FP) >>],
              SendPadding(TRUE, TRUE, UniformDist(timeout, timeout, 0, 0),
                          UniformDist(padding_count, padding_count, 0, 0)))
        EXCEPT !.rate = rate]

generate_relay_send_state(curr_index, next_index, padding_count, timeout, threshold, rate) ==
    [NewState(curr_index,
              IF curr_index > 11
              THEN [PaddingSent |-> << Trans(curr_index, FP) >>,
                    LimitReached |-> << Trans(next_index, FP) >>,
                    NormalSent |-> << Trans(11, SurgeProb(threshold, rate)) >>]
              ELSE [PaddingSent |-> << Trans(curr_index, FP) >>,
                    LimitReached |-> << Trans(next_index, FP) >>],
              SendPadding(TRUE, TRUE, UniformDist(timeout, timeout, 0, 0),
                          UniformDist(padding_count, padding_count, 0, 0)))
        EXCEPT !.rate = rate]

\* A variant of the BOOTSTRAP state that skips the state after it.
generate_relay_boot_state_skip(curr_index, next_index, timeout) ==
    NewState(curr_index,
             [PaddingSent |-> << Trans(curr_index, FP) >>,
              NormalSent |-> << Trans(next_index + 1, FP) >>],
             SendPadding(TRUE, TRUE, UniformDist(timeout, timeout, 0, 0), None))

generate_relay_boot_state(curr_index, next_index, timeout) ==
    NewState(curr_index,
             [PaddingSent |-> << Trans(curr_index, FP) >>,
              NormalSent |-> << Trans(next_index, FP) >>],
             SendPadding(TRUE, TRUE, UniformDist(timeout, timeout, 0, 0), None))

generate_relay_block_state ==
    NewState(NoIndex,
             [BlockingBegin |-> << Trans(2, FP) >>],
             BlockOutgoing(TRUE, TRUE, UniformDist(0, 0, 0, 0),
                           UniformDist(F64_INFINITY, F64_INFINITY, 0, 0), None))

generate_relay_start_state ==
    NewState(NoIndex, [NormalSent |-> << Trans(1, FP) >>], None)

\* RD^t
calculate_rate(t, initial_rate, decay) == FMul(initial_rate, Powf(decay, t))

(***************************************************************************)
(* maybenot_front.rs: states                                               *)
(***************************************************************************)

\* The action of a PADDING state: a Normal timeout with mean timeout and
\* max timeout * 2.0, and a Uniform limit between 1.0 and padding_count.
FrontAction(padding_count, timeout, stdev) ==
    [kind |-> "SendPadding", bypass |-> FALSE, replace |-> FALSE,
     timeout |-> NormalDist(timeout, stdev, 0, FMul(timeout, 2 * FP)),
     limit |-> UniformDist(FP, padding_count, 0, 0)]

generate_padding_state(curr_index, next_index, padding_count, timeout, stdev) ==
    NewState(curr_index,
             [PaddingSent |-> << Trans(curr_index, FP) >>,
              LimitReached |-> << Trans(next_index, FP) >>],
             FrontAction(padding_count, timeout, stdev))

\* A variant of the last PADDING state that advances to a next index
\* instead of ending the machine.
generate_last_padding_state_advance(curr_index, padding_count, timeout, stdev) ==
    NewState(curr_index,
             [PaddingSent |-> << Trans(curr_index, FP) >>,
              LimitReached |-> << Trans(curr_index + 1, FP) >>],
             FrontAction(padding_count, timeout, stdev))

generate_last_padding_state(curr_index, padding_count, timeout, stdev) ==
    NewState(curr_index,
             [PaddingSent |-> << Trans(curr_index, FP) >>,
              LimitReached |-> << Trans(STATE_END, FP) >>],
             FrontAction(padding_count, timeout, stdev))

\* Cumulative distribution function of the Rayleigh distribution:
\* 1.0 - E.powf(-t.powi(2) / (2.0 * scale.powi(2)))
rayleigh_cdf(t, scale) ==
    LET exp_num == FNeg(Powi2(t))
        exp_div == FMul(2 * FP, Powi2(scale))
        exp == FDiv(exp_num, exp_div)
    IN  FSub(FP, Powf(E, exp))

\* 0.9996645373720975, the area below max_t
TailArea == 16771588

\* The t at which the Rayleigh CDF reaches TailArea:
\* (-2.0 * scale.powi(2) * (1.0 - 0.9996645373720975).log(E)).sqrt()
rayleigh_max_t(scale) ==
    LET ra == FMul(-2 * FP, Powi2(scale))
        rb == FSub(FP, TailArea)
    IN  Sqrt(FMul(ra, LogE(rb)))

generate_start_state ==
    NewState(NoIndex,
             [NormalSent |-> << Trans(1, FP) >>,
              NormalRecv |-> << Trans(1, FP) >>],
             None)

(***************************************************************************)
(* Parameters drawn by Init                                                *)
(***************************************************************************)

\* FRONT: num_states in 0 .. MaxNumStates, padding_budget in 0 .. MaxBudget,
\* padding_window (the scale of the Rayleigh distribution) 0.5 or 1.
MaxNumStates == 4
MaxBudget == 4
PaddingWindows == {HalfFP, FP}

\* Direct calls of the Rayleigh calc_interval_width(a, max_t, area, scale),
\* scale = 1: a is 0 or 3.9557, the start of the last interval searched by
\* generate_machine for num_states = 5000 (the t with CDF(t) = 4998 / 5000),
\* and area is 1 / 4 or 1 / 5000.
PartitionStarts == {0, 66366500}
PartitionAreas == {FP \div 4, FP \div 5000}

\* RegulaTor client: upload_ratio in steps of a quarter, 0 .. MaxRatioQuarters / 4.
MaxRatioQuarters == 14
UploadRatios == {q * (FP \div 4) : q \in 0 .. MaxRatioQuarters}

\* RegulaTor relay: initial rates 0.5, 2 and 4 packets/s; packets per state
\* 0.00001 (rounded down to the fixed-point grid), 1 and 2; thresholds 1 and 4.
InitialRates == {HalfFP, 2 * FP, 4 * FP}
PacketsPerState == {167, FP, 2 * FP}
Thresholds == {FP, 4 * FP}

\* num_send_states is a usize counter that wraps on overflow (release
\* build; a debug build would panic at that point).  UsizeRange stands for
\* 2^64, the number of values of the counter.  The machines of the
\* parameters above have fewer than UsizeRange SEND states.
UsizeRange == 16

\* f64::EPSILON, the distance from 1.0 to the next value: one unit of the
\* fixed-point grid.
EPSILON == 1

\* The tolerance 0.00001 of the surge partitioner: |x| > 0.00001 for a value
\* x on the fixed-point grid is |x| > 167 units (0.00001 * FP = 167.77...).
Tolerance == 167

(***************************************************************************)
(* State                                                                   *)
(***************************************************************************)

VARIABLES
    prog,                \* the function called: "front", "client", "relay",
                         \* or "partition" (the Rayleigh calc_interval_width)
    pc,                  \* the program point
    padding_window,      \* FRONT: padding_window
    padding_budget,      \* FRONT: padding_budget (u32)
    upload_ratio,        \* client: upload_ratio
    packets_per_state,   \* relay: packets_per_state
    initial_rate,        \* relay: initial_rate
    decay,               \* relay: decay
    threshold,           \* relay: threshold
    num_states,          \* FRONT: the parameter; client and relay: the local
    states,              \* Vec<State>
    i,                   \* the loop variable of the state-building loop
    t1,                  \* FRONT and relay: start of the next interval
    area,                \* FRONT: area
    max_t,               \* FRONT: max_t
    b,                   \* Rayleigh calc_interval_width: b
    increment,           \* Rayleigh calc_interval_width: increment
    total_padding_frac,  \* FRONT: total_padding_frac
    prob_last_trans,     \* client: prob_last_trans
    keep_going,          \* relay: keep_going
    num_send_states,     \* relay: num_send_states
    a,                   \* calc_interval_width (both): a
    mid,                 \* calc_interval_width: mid
    step,                \* calc_interval_width: step
    decreasing,          \* calc_interval_width: decreasing
    curr_diff,           \* calc_interval_width (both): curr_diff
    width                \* the width returned last

vars ==
    << prog, pc, padding_window, padding_budget, upload_ratio, packets_per_state,
       initial_rate, decay, threshold, num_states, states, i, t1, area, max_t, b,
       increment, total_padding_frac, prob_last_trans, keep_going, num_send_states,
       a, mid, step, decreasing, curr_diff, width >>

frontLocals == << area, total_padding_frac, max_t, b, increment >>
clientLocals == << prob_last_trans >>
relayLocals == << t1, keep_going, num_send_states, width >>
calcLocals == << a, mid, step, decreasing, curr_diff >>
params ==
    << prog, padding_window, padding_budget, upload_ratio, packets_per_state,
       initial_rate, decay, threshold >>

\* The locals before the generator runs.
InitLocals ==
    /\ pc = "start"
    /\ states = << >>
    /\ i = 0
    /\ t1 = 0
    /\ area = 0
    /\ max_t = 0
    /\ b = 0
    /\ increment = 0
    /\ total_padding_frac = 0
    /\ prob_last_trans = 0
    /\ keep_going = FALSE
    /\ num_send_states = 0
    /\ a = 0
    /\ mid = 0
    /\ step = 0
    /\ decreasing = FALSE
    /\ curr_diff = 0
    /\ width = 0

InitFront ==
    /\ prog = "front"
    /\ padding_window \in PaddingWindows
    /\ num_states \in 0 .. MaxNumStates
    /\ padding_budget \in 0 .. MaxBudget
    /\ upload_ratio = 0
    /\ packets_per_state = 0
    /\ initial_rate = 0
    /\ decay = 0
    /\ threshold = 0

InitClient ==
    /\ prog = "client"
    /\ upload_ratio \in UploadRatios
    /\ padding_window = 0
    /\ num_states = 0
    /\ padding_budget = 0
    /\ packets_per_state = 0
    /\ initial_rate = 0
    /\ decay = 0
    /\ threshold = 0

InitRelay ==
    /\ prog = "relay"
    /\ packets_per_state \in PacketsPerState
    /\ initial_rate \in InitialRates
    /\ decay \in Decays
    /\ threshold \in Thresholds
    /\ num_states = 0
    /\ padding_window = 0
    /\ padding_budget = 0
    /\ upload_ratio = 0

\* A direct call of the Rayleigh calc_interval_width, with scale 1
InitPartition ==
    /\ prog = "partition"
    /\ padding_window = FP
    /\ num_states = 0
    /\ padding_budget = 0
    /\ upload_ratio = 0
    /\ packets_per_state = 0
    /\ initial_rate = 0
    /\ decay = 0
    /\ threshold = 0

Init == InitLocals /\ (InitFront \/ InitClient \/ InitRelay \/ InitPartition)

(***************************************************************************)
(* maybenot_front.rs: generate_machine                                     *)
(***************************************************************************)

\* let area = 1.0 / (num_states as f64);
Area(n) == FDiv(FP, AsF64(n))

\* let padding_count = area * (padding_budget as f64);
PaddingCount(fraction, budget) == FMul(fraction, AsF64(budget))

\* A variant of the last padding count that takes the fraction already
\* covered instead of the remainder.
LastPaddingCountCovered(total, budget) == FMul(total, AsF64(budget))

\* let padding_count = (1.0 - total_padding_frac) * (padding_budget as f64);
LastPaddingCount(total, budget) == FMul(FSub(FP, total), AsF64(budget))

\* area, max_t, the START state, t1 and total_padding_frac
FrontBegin ==
    /\ prog = "front" /\ pc = "start"
    /\ area' = Area(num_states)
    /\ max_t' = rayleigh_max_t(padding_window)
    /\ states' = << generate_start_state >>
    /\ t1' = 0
    /\ total_padding_frac' = 0
    /\ i' = 1
    /\ pc' = "loop"
    /\ UNCHANGED << params, num_states, b, increment, clientLocals, keep_going,
                    num_send_states, width, calcLocals >>

\* The loop condition of the Rayleigh search: curr_diff.abs() > EPSILON
RayContinues == FGt(FAbs(curr_diff), EPSILON)

\* The entry of the Rayleigh calc_interval_width(start, upper, target, scale)
RayEnter(start, upper, target, scale) ==
    /\ a' = start
    /\ b' = upper
    /\ increment' = FHalf(FSub(upper, start))
    /\ curr_diff' = FSub(target,
                         FSub(rayleigh_cdf(upper, scale), rayleigh_cdf(start, scale)))

\* The value returned: b - a
RayResult == FSub(b, a)

\* One iteration of the Rayleigh search loop
RayStep ==
    /\ pc \in {"front_calc", "partition_calc"}
    /\ RayContinues
    /\ LET new_b == IF FLt(curr_diff, 0) THEN FSub(b, increment)
                    ELSE FAdd(b, increment)
           curr_area == FSub(rayleigh_cdf(new_b, padding_window),
                             rayleigh_cdf(a, padding_window))
       IN  /\ b' = new_b
           /\ increment' = FHalf(increment)
           /\ curr_diff' = FSub(area, curr_area)
    /\ UNCHANGED << params, pc, num_states, states, i, t1, area, max_t,
                    total_padding_frac, a, mid, step, decreasing, clientLocals,
                    keep_going, num_send_states, width >>

\* `for i in 1..num_states`: the call of calc_interval_width
FrontCall ==
    /\ prog = "front" /\ pc = "loop" /\ i < num_states
    /\ RayEnter(t1, max_t, area, padding_window)
    /\ pc' = "front_calc"
    /\ UNCHANGED << params, num_states, states, i, t1, area, max_t,
                    total_padding_frac, mid, step, decreasing, clientLocals,
                    keep_going, num_send_states, width >>

\* The rest of the loop body, once the call has returned: the PADDING
\* state of interval i
FrontPaddingState ==
    /\ prog = "front" /\ pc = "front_calc" /\ ~RayContinues
    /\ LET middle == FAdd(t1, FHalf(RayResult))
           padding_count == PaddingCount(area, padding_budget)
           timeout == FDiv(RayResult, padding_count)
           stdev == FDiv(Powi2(padding_window),
                         FMul(FMul(padding_count, middle), Sqrt(PI)))
       IN  states' = Append(states,
                            generate_padding_state(i, i + 1, padding_count, timeout, stdev))
    /\ width' = RayResult
    /\ t1' = FAdd(t1, RayResult)
    /\ total_padding_frac' = FAdd(total_padding_frac, area)
    /\ i' = i + 1
    /\ pc' = "loop"
    /\ UNCHANGED << params, num_states, area, max_t, b, increment, clientLocals,
                    keep_going, num_send_states, calcLocals >>

\* The last state, after the loop: it reaches to max_t
FrontLastState ==
    /\ prog = "front" /\ pc = "loop" /\ ~(i < num_states)
    /\ LET last_width == FSub(max_t, t1)
           middle == FAdd(t1, FHalf(last_width))
           padding_count == LastPaddingCount(total_padding_frac, padding_budget)
           timeout == FDiv(last_width, padding_count)
           stdev == FDiv(Powi2(padding_window),
                         FMul(FMul(padding_count, middle), Sqrt(PI)))
       IN  /\ states' = Append(states,
                               generate_last_padding_state(num_states, padding_count,
                                                           timeout, stdev))
           /\ width' = last_width
    /\ pc' = "done"
    /\ UNCHANGED << params, num_states, i, t1, frontLocals, clientLocals, keep_going,
                    num_send_states, calcLocals >>

\* A direct call of calc_interval_width(a, max_t, area, scale)
PartitionCall ==
    /\ prog = "partition" /\ pc = "start"
    /\ \E start \in PartitionStarts, target \in PartitionAreas :
           /\ area' = target
           /\ max_t' = rayleigh_max_t(padding_window)
           /\ RayEnter(start, rayleigh_max_t(padding_window), target, padding_window)
    /\ pc' = "partition_calc"
    /\ UNCHANGED << params, num_states, states, i, t1, total_padding_frac, mid, step,
                    decreasing, clientLocals, keep_going, num_send_states, width >>

\* The return of the direct call
PartitionReturn ==
    /\ pc = "partition_calc" /\ ~RayContinues
    /\ width' = RayResult
    /\ pc' = "returned"
    /\ UNCHANGED << params, num_states, states, i, t1, frontLocals, clientLocals,
                    keep_going, num_send_states, calcLocals >>

(***************************************************************************)
(* maybenot_regulator.rs: generate_client_machine                          *)
(***************************************************************************)

\* num_states and prob_last_trans (an f32)
ClientBegin ==
    /\ prog = "client" /\ pc = "start"
    /\ num_states' = ClientNumStates(upload_ratio)
    /\ prob_last_trans' = ProbLastTrans(upload_ratio)
    /\ states' = << >>
    /\ i' = 1
    /\ pc' = "loop"
    /\ UNCHANGED << params, frontLocals, relayLocals, calcLocals >>

\* One iteration of `for i in 1..num_states`
ClientCountState ==
    /\ prog = "client" /\ pc = "loop" /\ i < num_states
    /\ LET prob_trans == IF i = num_states - 1 THEN prob_last_trans ELSE FP
       IN  states' = Append(states, generate_client_count_state(i - 1, i, prob_trans))
    /\ i' = i + 1
    /\ UNCHANGED << params, pc, num_states, frontLocals, clientLocals, relayLocals, calcLocals >>

\* The SEND state, after the loop
ClientSendState ==
    /\ prog = "client" /\ pc = "loop" /\ ~(i < num_states)
    /\ states' = Append(states, generate_client_send_state)
    /\ pc' = "done"
    /\ UNCHANGED << params, num_states, i, frontLocals, clientLocals, relayLocals, calcLocals >>

(***************************************************************************)
(* maybenot_regulator.rs: calc_interval_width, one action per loop         *)
(* iteration.  It is called from the counting loop (pc = "count_calc")     *)
(* and from the building loop (pc = "build_calc") of                       *)
(* generate_relay_machine.                                                 *)
(***************************************************************************)

\* The loop condition: curr_diff.abs() > 0.00001
CalcContinues == FGt(FAbs(curr_diff), Tolerance)

\* The entry of calc_interval_width(t1, packets_per_state, initial_rate, decay)
CalcEnter ==
    /\ a' = t1
    /\ mid' = t1
    /\ step' = HalfFP
    /\ decreasing' = FALSE
    /\ curr_diff' = FSub(packets_per_state, 0)

\* The value returned: (mid - a) * 2.0
CalcResult == FMul(FSub(mid, a), 2 * FP)

\* One iteration of the search loop
CalcStep ==
    /\ pc \in {"count_calc", "build_calc"}
    /\ CalcContinues
    /\ LET back == FLt(curr_diff, 0)
           new_mid == IF back THEN FSub(mid, step) ELSE FAdd(mid, step)
           new_decreasing == decreasing \/ back
           curr_count == FMul(FMul(calculate_rate(new_mid, initial_rate, decay),
                                   FSub(new_mid, a)),
                              2 * FP)
       IN  /\ mid' = new_mid
           /\ decreasing' = new_decreasing
           /\ step' = IF new_decreasing THEN FHalf(step) ELSE FDouble(step)
           /\ curr_diff' = FSub(packets_per_state, curr_count)
    /\ UNCHANGED << params, pc, num_states, states, i, a, frontLocals, clientLocals,
                    relayLocals >>

(***************************************************************************)
(* maybenot_regulator.rs: generate_relay_machine                           *)
(***************************************************************************)

\* `width == INFINITY || rate < 1.0` for the interval starting at t1
SurgeExhausted(w) ==
    LET middle == FAdd(t1, FHalf(w))
        rate == calculate_rate(middle, initial_rate, decay)
    IN  w = F64_INFINITY \/ FLt(rate, FP)

RelayBegin ==
    /\ prog = "relay" /\ pc = "start"
    /\ t1' = 0
    /\ keep_going' = TRUE
    /\ num_send_states' = 0
    /\ pc' = "count"
    /\ UNCHANGED << params, num_states, states, i, width, frontLocals, clientLocals,
                    calcLocals >>

\* `while keep_going`: the call of calc_interval_width
CountCall ==
    /\ pc = "count" /\ keep_going
    /\ CalcEnter
    /\ pc' = "count_calc"
    /\ UNCHANGED << params, num_states, states, i, frontLocals, clientLocals, relayLocals >>

\* The rest of the body of the counting loop, once the call has returned;
\* `num_send_states += 1` wraps when overflow is not detected.
CountReturn ==
    /\ pc = "count_calc" /\ ~CalcContinues
    /\ width' = CalcResult
    /\ keep_going' = ~SurgeExhausted(CalcResult)
    /\ t1' = FAdd(t1, CalcResult)
    /\ num_send_states' = (num_send_states + 1) % UsizeRange
    /\ pc' = "count"
    /\ UNCHANGED << params, num_states, states, i, frontLocals, clientLocals, calcLocals >>

\* After the counting loop: num_states, the START, BLOCK and BOOTSTRAP states
RelayFixedStates ==
    /\ pc = "count" /\ ~keep_going
    /\ num_states' = num_send_states + 11
    /\ states' = << generate_relay_start_state,
                    generate_relay_block_state,
                    generate_relay_boot_state(2, 3, BootTimeout),
                    generate_relay_boot_state(3, 4, BootTimeout),
                    generate_relay_boot_state(4, 5, BootTimeout),
                    generate_relay_boot_state(5, 6, BootTimeout),
                    generate_relay_boot_state(6, 7, BootTimeout),
                    generate_relay_boot_state(7, 8, BootTimeout),
                    generate_relay_boot_state(8, 9, BootTimeout),
                    generate_relay_boot_state(9, 10, BootTimeout),
                    generate_relay_boot_state(10, 11, BootTimeout) >>
    /\ t1' = 0
    /\ i' = 0
    /\ pc' = "build"
    /\ UNCHANGED << params, keep_going, num_send_states, width, frontLocals,
                    clientLocals, calcLocals >>

\* `for i in 0..num_send_states`: the call of calc_interval_width
BuildCall ==
    /\ pc = "build" /\ i < num_send_states
    /\ CalcEnter
    /\ pc' = "build_calc"
    /\ UNCHANGED << params, num_states, states, i, frontLocals, clientLocals, relayLocals >>

\* The SEND state of interval i, once the call has returned
BuildReturn ==
    /\ pc = "build_calc" /\ ~CalcContinues
    /\ LET middle == FAdd(t1, FHalf(CalcResult))
           last == SurgeExhausted(CalcResult)
           rate == IF last THEN FP ELSE calculate_rate(middle, initial_rate, decay)
           next_idx == IF last THEN STATE_END ELSE i + 12
           curr_idx == i + 11
       IN  states' = Append(states,
                            generate_relay_send_state(curr_idx, next_idx, packets_per_state,
                                                      MicrosPerRate(rate), threshold, rate))
    /\ width' = CalcResult
    /\ t1' = FAdd(t1, CalcResult)
    /\ i' = i + 1
    /\ pc' = "build"
    /\ UNCHANGED << params, num_states, keep_going, num_send_states, frontLocals,
                    clientLocals, calcLocals >>

\* The end of the building loop
BuildExit ==
    /\ pc = "build" /\ ~(i < num_send_states)
    /\ pc' = "done"
    /\ UNCHANGED << params, num_states, states, i, frontLocals, clientLocals, relayLocals,
                    calcLocals >>

(***************************************************************************)
(* Specification                                                           *)
(***************************************************************************)

Next ==
    \/ FrontBegin
    \/ FrontCall
    \/ RayStep
    \/ FrontPaddingState
    \/ FrontLastState
    \/ ClientBegin
    \/ ClientCountState
    \/ ClientSendState
    \/ RelayBegin
    \/ CountCall
    \/ CalcStep
    \/ CountReturn
    \/ RelayFixedStates
    \/ BuildCall
    \/ BuildReturn
    \/ BuildExit
    \/ PartitionCall
    \/ PartitionReturn

Spec == Init /\ [][Next]_vars

\* The generator is one sequential program: it takes its next step whenever
\* it has one.
FairSpec == Spec /\ WF_vars(Next)

(***************************************************************************)
(* Properties of the generated machines.  Rust index j of the state list   *)
(* is position j + 1 of `states`.                                          *)
(***************************************************************************)

StateAt(j) == states[j + 1]
Indices == 0 .. Len(states) - 1
Done(p) == prog = p /\ pc = "done"

\* The targets of all transitions of a state
Targets(s) == UNION {{s.trans[e][k].target : k \in DOMAIN s.trans[e]} : e \in Event}

IsCounter(s) == s.action.kind = "BlockOutgoing"
IsSend(s) == s.action.kind = "SendPadding"
IsStart(s) == s.action = None

\* floor and ceiling of a non-negative fixed-point value, as integers
Floor(x) == x \div FP
Ceil(x) == (x + FP - 1) \div FP

\* C1: generate_client_machine(upload_ratio) builds exactly
\* floor(upload_ratio) COUNTER states followed by exactly one SEND state, so
\* the machine has floor(upload_ratio) + 1 states; upload_ratio = 2.5 yields
\* 2 COUNTER states and 1 SEND state.
C1_ClientFloorCounters ==
    Done("client") =>
        /\ Len(states) = Floor(upload_ratio) + 1
        /\ \A j \in Indices : j < Floor(upload_ratio) => IsCounter(StateAt(j))
        /\ IsSend(StateAt(Floor(upload_ratio)))

\* C1, reached case: upload_ratio = 2.5 has produced its 3 states.
C1_Witness ==
    /\ Done("client")
    /\ upload_ratio = 10 * (FP \div 4)
    /\ Len(states) = 3
    /\ IsCounter(StateAt(1)) /\ IsSend(StateAt(2))

\* C1 as stated: for every upload_ratio > 0 the machine has
\* ceil(upload_ratio) COUNTER states and one SEND state, ceil(upload_ratio)
\* + 1 states in all.
C1_ClientCeilCounters ==
    (Done("client") /\ upload_ratio > 0) =>
        /\ Len(states) = Ceil(upload_ratio) + 1
        /\ Cardinality({j \in Indices : IsCounter(StateAt(j))}) = Ceil(upload_ratio)
        /\ Cardinality({j \in Indices : IsSend(StateAt(j))}) = 1

\* The transitions of COUNTER state j whose link to state j + 1 has
\* probability p: with p < 1 the state also stays in itself with
\* probability 1 - p and advances on LimitReached; with p = 1 it only
\* advances.
CounterLinks(j, p) ==
    IF p < FP
    THEN [e \in Event |->
            IF e \in {"PaddingRecv", "NormalRecv"}
            THEN << Trans(j + 1, p), Trans(j, FP - p) >>
            ELSE IF e = "LimitReached" THEN << Trans(j + 1, FP) >>
            ELSE << >>]
    ELSE [e \in Event |->
            IF e \in {"PaddingRecv", "NormalRecv"} THEN << Trans(j + 1, p) >>
            ELSE << >>]

\* C2: in the client machine every COUNTER state advances to the next state
\* on PaddingRecv and on NormalRecv with probability p and, when p < 1,
\* stays in itself with probability 1 - p; p = 1 for every link except the
\* last one, whose p is 1 - fract(upload_ratio).
C2_LastLinkComplement ==
    Done("client") =>
        \A j \in Indices :
            IsCounter(StateAt(j)) =>
                StateAt(j).trans =
                    CounterLinks(j, IF j = Len(states) - 2
                                    THEN FP - (upload_ratio % FP)
                                    ELSE FP)

\* C2, reached case: upload_ratio = 2.25, whose last link carries 0.75.
C2_Witness ==
    /\ Done("client")
    /\ upload_ratio = 9 * (FP \div 4)
    /\ StateAt(1).trans["NormalRecv"] =
           << Trans(2, 3 * (FP \div 4)), Trans(1, FP \div 4) >>
    /\ StateAt(1).trans["PaddingRecv"] = StateAt(1).trans["NormalRecv"]

\* C2 as stated: the last link's p is the fractional part of upload_ratio
\* and the state stays in itself with probability 1 - p.
C2_LastLinkFraction ==
    Done("client") =>
        \A j \in Indices :
            (IsCounter(StateAt(j)) /\ j = Len(states) - 2) =>
                \A e \in {"PaddingRecv", "NormalRecv"} :
                    /\ Len(StateAt(j).trans[e]) >= 1
                    /\ StateAt(j).trans[e][1] = Trans(j + 1, upload_ratio % FP)
                    /\ \A k \in DOMAIN StateAt(j).trans[e] :
                           k > 1 => StateAt(j).trans[e][k] =
                                        Trans(j, FP - (upload_ratio % FP))

\* C3: in the relay machine every SEND state with index greater than 11 has
\* exactly one NormalSent transition, to the first SEND state (index 11),
\* with probability 2 / (threshold * rate) for the rate the state was built
\* with; the first SEND state has no NormalSent transition, and the
\* NormalSent transitions of the states before it only lead one state
\* forward with probability 1.
C3_SurgeBackToFirstSend ==
    Done("relay") =>
        \A j \in Indices :
            StateAt(j).trans["NormalSent"] =
                IF j > 11 THEN << Trans(11, SurgeProb(threshold, StateAt(j).rate)) >>
                ELSE IF j = 11 \/ j = 1 THEN << >>
                ELSE << Trans(j + 1, FP) >>

\* C3, reached case: a relay machine with a SEND state after the first one,
\* which jumps back to index 11.
C3_Witness ==
    /\ Done("relay")
    /\ Len(states) >= 13
    /\ StateAt(12).trans["NormalSent"] # << >>
    /\ StateAt(12).trans["NormalSent"][1].target = 11
    /\ StateAt(12).rate >= FP

\* C3 as stated: every SEND state (index greater than 10) has a NormalSent
\* transition to the last BOOTSTRAP state (index 10) with probability
\* 2 / (threshold * rate).
C3_SurgeBackToLastBoot ==
    Done("relay") =>
        \A j \in Indices :
            j > 10 =>
                StateAt(j).trans["NormalSent"] =
                    << Trans(10, SurgeProb(threshold, StateAt(j).rate)) >>
\* C4: in every machine produced (FRONT, relay, client) every transition's
\* target is STATE_END or an index of the state list, and the state at
\* position j of the list is the state that was built with curr_index = j.
C4_TargetsAndPositions ==
    pc = "done" =>
        \A j \in Indices :
            /\ Targets(StateAt(j)) \subseteq (Indices \cup {STATE_END})
            /\ StateAt(j).curr_index # NoIndex => StateAt(j).curr_index = j

\* C4 holds of the machines of the relay and client generators and of the
\* FRONT generator called with num_states >= 1.
C4_ExceptNoPaddingStates ==
    (pc = "done" /\ ~(prog = "front" /\ num_states = 0)) =>
        \A j \in Indices :
            /\ Targets(StateAt(j)) \subseteq (Indices \cup {STATE_END})
            /\ StateAt(j).curr_index # NoIndex => StateAt(j).curr_index = j

\* The indices of the states that have a transition to index 0
TargetingZero == {j \in Indices : 0 \in Targets(StateAt(j))}

\* C5: in the relay machine and in the FRONT machine index 0 is the START
\* state, and no transition targets index 0 in the relay machine and in a
\* FRONT machine with num_states >= 1 (with num_states = 0 the PaddingSent
\* transition of the only PADDING state targets index 0).  The client
\* machine has no START state: its index 0 is a COUNTER state, or the SEND
\* state when there is no COUNTER state, and the PaddingSent transition of
\* its SEND state targets index 0 with probability 1.
C5_StartAndReturnToZero ==
    /\ Done("relay") => IsStart(StateAt(0)) /\ TargetingZero = {}
    /\ Done("front") =>
           /\ IsStart(StateAt(0))
           /\ TargetingZero = IF num_states = 0 THEN {1} ELSE {}
    /\ Done("client") =>
           /\ ~IsStart(StateAt(0))
           /\ IsSend(StateAt(Len(states) - 1))
           /\ StateAt(Len(states) - 1).trans["PaddingSent"] = << Trans(0, FP) >>
           /\ Len(states) - 1 \in TargetingZero
           /\ TargetingZero \subseteq {0, Len(states) - 1}

\* C5, reached case: a client machine with COUNTER states whose SEND state
\* returns to index 0, a COUNTER state.
C5_Witness ==
    /\ Done("client")
    /\ Len(states) = 3
    /\ IsCounter(StateAt(0))
    /\ TargetingZero = {2}

\* C5 as stated: in every generated machine index 0 is the START state and
\* no transition targets index 0.
C5_StartNeverTargeted ==
    pc = "done" => IsStart(StateAt(0)) /\ TargetingZero = {}

\* C6: for num_states >= 1 the FRONT machine has exactly num_states + 1
\* states, START and num_states PADDING states, and the PADDING state at
\* index num_states maps LimitReached to STATE_END with probability 1.
C6_FrontStateCount ==
    (Done("front") /\ num_states >= 1) =>
        /\ Len(states) = num_states + 1
        /\ IsStart(StateAt(0))
        /\ \A j \in 1 .. num_states : IsSend(StateAt(j))
        /\ StateAt(num_states).trans["LimitReached"] = << Trans(STATE_END, FP) >>

\* C6, reached case: num_states = 4 gives 5 states and state 4 ends the
\* machine.
C6_Witness ==
    /\ Done("front")
    /\ num_states = 4
    /\ Len(states) = 5
    /\ STATE_END \in Targets(StateAt(4))

\* C7: in the FRONT machine START has transitions only on NormalSent and
\* NormalRecv, both to state 1 with probability 1; every PADDING state j
\* with 1 <= j < num_states has only PaddingSent -> j and LimitReached ->
\* j + 1, both with probability 1; every transition leads to the same or
\* to the next index or to STATE_END, and only state num_states has a
\* transition to STATE_END.
C7_FrontInOrder ==
    Done("front") =>
        /\ StateAt(0).trans =
               EnumMap([NormalSent |-> << Trans(1, FP) >>,
                        NormalRecv |-> << Trans(1, FP) >>])
        /\ \A j \in Indices :
               (1 <= j /\ j < num_states) =>
                   StateAt(j).trans =
                       EnumMap([PaddingSent |-> << Trans(j, FP) >>,
                                LimitReached |-> << Trans(j + 1, FP) >>])
        /\ \A j \in Indices :
               /\ Targets(StateAt(j)) \subseteq {j, j + 1, STATE_END}
               /\ STATE_END \in Targets(StateAt(j)) => j = num_states

\* C7 holds of the FRONT machines built with num_states >= 1.
C7_ExceptNoPaddingStates ==
    (Done("front") /\ num_states >= 1) =>
        /\ StateAt(0).trans =
               EnumMap([NormalSent |-> << Trans(1, FP) >>,
                        NormalRecv |-> << Trans(1, FP) >>])
        /\ \A j \in Indices :
               (1 <= j /\ j < num_states) =>
                   StateAt(j).trans =
                       EnumMap([PaddingSent |-> << Trans(j, FP) >>,
                                LimitReached |-> << Trans(j + 1, FP) >>])
        /\ \A j \in Indices :
               /\ Targets(StateAt(j)) \subseteq {j, j + 1, STATE_END}
               /\ STATE_END \in Targets(StateAt(j)) => j = num_states

\* C8: the relay machine consists of START (index 0), BLOCK (index 1), nine
\* BOOTSTRAP states (indices 2..10) and the SEND states from index 11 on,
\* num_send_states + 11 states with num_send_states >= 1; START goes to
\* BLOCK on NormalSent, BLOCK goes to the first BOOTSTRAP state on
\* BlockingBegin, and BOOTSTRAP state k stays in k on PaddingSent and goes
\* to k + 1 on NormalSent, the ninth one to the first SEND state.
C8_RelayLayout ==
    Done("relay") =>
        /\ num_send_states >= 1
        /\ Len(states) = num_send_states + 11
        /\ num_states = Len(states)
        /\ IsStart(StateAt(0))
        /\ StateAt(0).trans = EnumMap([NormalSent |-> << Trans(1, FP) >>])
        /\ IsCounter(StateAt(1))
        /\ StateAt(1).trans = EnumMap([BlockingBegin |-> << Trans(2, FP) >>])
        /\ \A k \in 2 .. 10 :
               /\ IsSend(StateAt(k)) /\ StateAt(k).action.limit = None
               /\ StateAt(k).action.timeout.low = BootTimeout
               /\ StateAt(k).trans =
                      EnumMap([PaddingSent |-> << Trans(k, FP) >>,
                               NormalSent |-> << Trans(k + 1, FP) >>])
        /\ \A k \in 11 .. Len(states) - 1 :
               /\ IsSend(StateAt(k))
               /\ StateAt(k).action.limit =
                      UniformDist(packets_per_state, packets_per_state, 0, 0)
               /\ StateAt(k).trans["PaddingSent"] = << Trans(k, FP) >>

\* C8, reached case: a relay machine with three SEND states after the
\* eleven fixed states.
C8_Witness ==
    /\ Done("relay")
    /\ num_send_states = 3
    /\ Len(states) = 14
    /\ StateAt(10).trans["NormalSent"] = << Trans(11, FP) >>

\* C9: the interval-counting loop of generate_relay_machine terminates for
\* every initial rate R > 0, decay 0 < D < 1 and packets_per_state > 0; the
\* generator then builds the machine and finishes.
C9_RelayTerminates ==
    (prog = "relay" /\ initial_rate > 0 /\ decay > 0 /\ decay < FP
        /\ packets_per_state > 0)
    ~> (pc = "done")

\* Every call of calc_interval_width made by the relay generator returns.
CalcReturns ==
    (pc \in {"count_calc", "build_calc"}) ~> (pc \notin {"count_calc", "build_calc"})

RECURSIVE SumPaddingCounts(_)
\* The sum of the padding counts (the upper ends of the limits) of the
\* PADDING states 1 .. j
SumPaddingCounts(j) ==
    IF j = 0 THEN 0 ELSE StateAt(j).action.limit.high + SumPaddingCounts(j - 1)

FrontDegenerate == prog = "front" /\ num_states = 0
ClientDegenerate == prog = "client" /\ upload_ratio = 0
RelayDegenerate == prog = "relay" /\ num_send_states = 1 /\ width = F64_INFINITY

\* C11: degenerate parameters (num_states = 0 for FRONT, upload_ratio = 0
\* for the client, a first relay interval that is already infinite) are
\* rejected: no generator run with them ends with a machine produced.
C11_DegenerateRejected ==
    pc = "done" => ~(FrontDegenerate \/ ClientDegenerate \/ RelayDegenerate)

\* The three parts of C11, one per generator.
C11_FrontRejected == pc = "done" => ~FrontDegenerate
C11_ClientRejected == pc = "done" => ~ClientDegenerate
C11_RelayRejected == pc = "done" => ~RelayDegenerate

\* The distributions attached to a state: the timeout, limit and duration
\* of its action that are present.
Dists(s) ==
    IF s.action = None THEN {}
    ELSE {s.action[f] : f \in DOMAIN s.action \cap {"timeout", "limit", "duration"}}
             \ {None}

\* x <= y on f64 values (false when either is NaN)
FLe(x, y) == ~IsNaN(x) /\ ~IsNaN(y) /\ x <= y

\* C12: every Uniform distribution attached to a state of a generated
\* machine has low <= high and every distribution has max >= 0; in
\* particular the limit Uniform{1, padding_count} of every PADDING state of
\* a FRONT machine with num_states >= 1 has 1 <= padding_count.
C12_DistributionsValid ==
    (pc = "done" /\ ~FrontDegenerate) =>
        \A j \in Indices : \A d \in Dists(StateAt(j)) :
            /\ d.type = "Uniform" => FLe(d.low, d.high)
            /\ FLe(0, d.max)

\* C12 holds of the relay and client machines.
C12_RegulatorDistributionsValid ==
    (pc = "done" /\ prog \in {"relay", "client"}) =>
        \A j \in Indices : \A d \in Dists(StateAt(j)) :
            /\ d.type = "Uniform" => FLe(d.low, d.high)
            /\ FLe(0, d.max)

\* The indices of the SEND states of a relay machine, and those among them
\* whose LimitReached transition ends the machine.
RelaySendIndices == {j \in Indices : j >= 11}
EndingSendIndices ==
    {j \in RelaySendIndices :
        \E k \in DOMAIN StateAt(j).trans.LimitReached :
            StateAt(j).trans.LimitReached[k].target = STATE_END}

\* C13: in a generated relay machine exactly one SEND state maps
\* LimitReached to STATE_END; it is the last state of the list, the state of
\* the interval at which the counting pass stopped (the first interval whose
\* width is infinite or whose midpoint rate is below 1), and it is built
\* with the rate clamped to 1.0; every earlier SEND state k maps
\* LimitReached to k + 1 with probability 1.
C13_SingleEndIsLast ==
    Done("relay") =>
        LET last == Len(states) - 1
        IN  /\ last = num_send_states + 10
            /\ EndingSendIndices = {last}
            /\ StateAt(last).trans.LimitReached = << Trans(STATE_END, FP) >>
            /\ StateAt(last).rate = FP
            /\ StateAt(last).action.timeout = UniformDist(MicrosPerRate(FP), MicrosPerRate(FP), 0, 0)
            /\ \A k \in RelaySendIndices \ {last} :
                   /\ StateAt(k).trans.LimitReached = << Trans(k + 1, FP) >>
                   /\ ~FLt(StateAt(k).rate, FP)

\* A relay machine with three SEND states: two that advance and the last.
C13_Witness ==
    /\ Done("relay")
    /\ Len(states) = 14
    /\ StateAt(11).trans.LimitReached = << Trans(12, FP) >>
    /\ StateAt(12).trans.LimitReached = << Trans(13, FP) >>
    /\ StateAt(13).trans.LimitReached = << Trans(STATE_END, FP) >>

\* The positions inside a call of the Rayleigh partitioner
\* (maybenot_front.rs) and of the surge partitioner (maybenot_regulator.rs),
\* and the return of each with a discrepancy inside its tolerance.
RayleighCalls == {"front_calc", "partition_calc"}
SurgeCalls == {"count_calc", "build_calc"}
RayleighInTolerance == pc \in RayleighCalls /\ FLe(FAbs(curr_diff), EPSILON)
SurgeInTolerance == pc \in SurgeCalls /\ FLe(FAbs(curr_diff), Tolerance)

\* C14: both partitioners terminate with a result inside the tolerance:
\* every call of the Rayleigh partitioner reaches its return with
\* |CDF(a + w) - CDF(a) - area| <= EPSILON, and every call of the surge
\* partitioner reaches its return with
\* |rate * decay^(a + w/2) * w - count| <= 0.00001.
C14_PartitionersReturnInTolerance ==
    /\ (pc \in RayleighCalls) ~> RayleighInTolerance
    /\ (pc \in SurgeCalls) ~> SurgeInTolerance

\* Termination alone, for each partitioner: every call returns.  The surge
\* partitioner's calls all return (CalcReturns, above); a call of the
\* Rayleigh partitioner whose area cannot be reached from a does not.
C14_RayleighReturns == (pc \in RayleighCalls) ~> (pc \notin RayleighCalls)

\* The results alone: whenever the surge partitioner returns, its
\* discrepancy is inside the tolerance.  It is not when no width gives the
\* count: the search doubles mid to infinity, the discrepancy becomes NaN,
\* `NaN > 0.00001` ends the loop and the width returned is INFINITY.
C14_SurgeResultInTolerance ==
    [][(CountReturn \/ BuildReturn) => FLe(FAbs(curr_diff), Tolerance)]_vars

\* For the numbers of states up to MaxNumStates, every call of the Rayleigh
\* partitioner made by generate_machine returns, and it returns inside the
\* tolerance.
C14_RayleighReturnsInGenerator == (pc = "front_calc") ~> (pc = "loop")
C14_RayleighInToleranceInGenerator ==
    [][FrontPaddingState => FLe(FAbs(curr_diff), EPSILON)]_vars

\* The Rayleigh search starts from b = max_t with half the distance to a as
\* its step, and halves the step in every iteration.
C14_RayleighHalves ==
    /\ [][FrontCall => (b' = max_t /\ increment' = FHalf(FSub(max_t, t1)))]_vars
    /\ [][RayStep => increment' = FHalf(increment)]_vars

\* The surge search doubles the step until the first overshoot and halves
\* it from then on.
C14_SurgeDoublesThenHalves ==
    [][CalcStep => /\ decreasing => decreasing'
                   /\ step' = IF decreasing' THEN FHalf(step) ELSE FDouble(step)]_vars

RECURSIVE SumProb(_)
\* The sum of the probabilities of a list of transitions
SumProb(ts) == IF ts = << >> THEN 0 ELSE FAdd(Head(ts).prob, SumProb(Tail(ts)))

\* Every transition of state s has a probability in [0, 1], and for each
\* event the probabilities of its transitions sum to at most 1.
ProbabilitiesValid(s) ==
    \A e \in Event :
        /\ \A k \in DOMAIN s.trans[e] :
               FLe(0, s.trans[e][k].prob) /\ FLe(s.trans[e][k].prob, FP)
        /\ FLe(SumProb(s.trans[e]), FP)

\* C15: in every generated machine every transition probability lies in
\* [0, 1] and, per state and event, the probabilities sum to at most 1;
\* this covers the NormalSent probability 2 / (threshold * rate) of the
\* relay SEND states, the last one (rate 1.0) included, for every
\* threshold > 0, and the pair (p, 1 - p) of the last client COUNTER state.
C15_ProbabilitiesValid ==
    pc = "done" => \A j \in Indices : ProbabilitiesValid(StateAt(j))

\* C15 holds of the client and FRONT machines, and of the relay machines
\* whose threshold is at least 2.
C15_ClientFrontProbabilitiesValid ==
    (pc = "done" /\ prog \in {"client", "front"}) =>
        \A j \in Indices : ProbabilitiesValid(StateAt(j))
C15_RelayThresholdAtLeastTwo ==
    (Done("relay") /\ threshold >= 2 * FP) =>
        \A j \in Indices : ProbabilitiesValid(StateAt(j))

\* In a relay machine with a threshold below 2 and at least two SEND states
\* the last SEND state returns to state 11 with a "probability" above 1.
C15_RelaySurgeProbabilityAboveOne ==
    (Done("relay") /\ threshold < 2 * FP /\ Len(states) >= 13) =>
        LET last == StateAt(Len(states) - 1)
        IN  /\ last.trans.NormalSent = << Trans(11, SurgeProb(threshold, FP)) >>
            /\ FGt(SurgeProb(threshold, FP), FP)

====
